---- MODULE Spec2Model ----
(***************************************************************************)
(* Model of the books CRUD service of app/main.py.                         *)
(*                                                                         *)
(* The handlers are synchronous functions serving one request each; a      *)
(* request is modelled as one step that validates the raw parameters,      *)
(* runs the handler body against the table and produces the response.      *)
(* The table is held as the sequence of its rows in the order in which     *)
(* the database scans them.                                                *)
(***************************************************************************)
EXTENDS Integers, Sequences, FiniteSets, TLC

(***************************************************************************)
(* Bounds of the model.                                                    *)
(***************************************************************************)
InitBig == 102        \* rows of the pre-existing table (more than one full page)
MaxCreates == 2       \* successful creates per run

(***************************************************************************)
(* Values.                                                                 *)
(***************************************************************************)
\* None / JSON null
None == [null |-> TRUE]

\* a query or path parameter as it arrives: absent, or its text
Absent == [present |-> FALSE, text |-> <<>>]
Raw(t) == [present |-> TRUE, text |-> t]

\* the parameters requests are made with
NewTitles == {Raw("Dune"), Absent}
NewPages == {Raw(<<"4", "1", "2">>), Raw(<<"-", "7">>), Raw(<<"a", "b", "c">>), Absent}
SetTitles == {Raw("Emma"), Absent}
SetPages == {Raw(<<"-", "1">>), Raw(<<"1", "2", "x">>), Absent}
RawPageSizes == {Raw(<<"1">>), Absent}
RawPageNos == {Raw(<<"0">>), Raw(<<"2">>), Absent}
BigPageSizes == {Raw(<<"-", "5">>), Raw(<<"0">>), Raw(<<"9", "9">>), Raw(<<"1", "0", "0">>),
                 Raw(<<"1", "0", "1">>), Absent}
BigPageNos == {Raw(<<"0">>), Raw(<<"2">>), Raw(<<"3">>), Raw(<<"z">>), Absent}

Digits == {"0", "1", "2", "3", "4", "5", "6", "7", "8", "9"}

DigitVal(c) ==
    CASE c = "0" -> 0 [] c = "1" -> 1 [] c = "2" -> 2 [] c = "3" -> 3 [] c = "4" -> 4
      [] c = "5" -> 5 [] c = "6" -> 6 [] c = "7" -> 7 [] c = "8" -> 8 [] c = "9" -> 9

DigitChar(n) ==
    CASE n = 0 -> "0" [] n = 1 -> "1" [] n = 2 -> "2" [] n = 3 -> "3" [] n = 4 -> "4"
      [] n = 5 -> "5" [] n = 6 -> "6" [] n = 7 -> "7" [] n = 8 -> "8" [] n = 9 -> "9"

RECURSIVE DigitsValue(_, _)
DigitsValue(t, acc) ==
    IF t = <<>> THEN acc ELSE DigitsValue(Tail(t), 10 * acc + DigitVal(Head(t)))

\* conversion of a parameter declared ": int": an optional sign and digits
ParseInt(t) ==
    LET body == IF t # <<>> /\ Head(t) \in {"-", "+"} THEN Tail(t) ELSE t
        neg  == t # <<>> /\ Head(t) = "-"
    IN IF body # <<>> /\ \A i \in 1..Len(body) : body[i] \in Digits
       THEN [ok |-> TRUE, val |-> IF neg THEN 0 - DigitsValue(body, 0) ELSE DigitsValue(body, 0)]
       ELSE [ok |-> FALSE, val |-> 0]

\* the text a client sends for a natural number
RECURSIVE IntText(_)
IntText(n) == IF n < 10 THEN <<DigitChar(n)>> ELSE Append(IntText(n \div 10), DigitChar(n % 10))

(***************************************************************************)
(* Dates.                                                                  *)
(***************************************************************************)
FirstDay == [year |-> 2026, month |-> 10, day |-> 31]

DaysInMonth(d) ==
    IF d.month \in {4, 6, 9, 11} THEN 30
    ELSE IF d.month = 2 THEN (IF d.year % 4 = 0 /\ (d.year % 100 # 0 \/ d.year % 400 = 0) THEN 29 ELSE 28)
    ELSE 31

NextDay(d) ==
    IF d.day < DaysInMonth(d) THEN [d EXCEPT !.day = d.day + 1]
    ELSE IF d.month < 12 THEN [d EXCEPT !.month = d.month + 1, !.day = 1]
    ELSE [year |-> d.year + 1, month |-> 1, day |-> 1]

\* the days a run spans
Days == {FirstDay, NextDay(FirstDay)}

Pad(n, w) == IF w = 2 /\ n < 10 THEN "0" \o ToString(n) ELSE ToString(n)

\* date.isoformat(), as jsonable_encoder renders a date
isoformat(d) == ToString(d.year) \o "-" \o Pad(d.month, 2) \o "-" \o Pad(d.day, 2)

(***************************************************************************)
(* The books table.                                                        *)
(***************************************************************************)
Book(id, title, pages, created_at) ==
    [id |-> id, title |-> title, pages |-> pages, created_at |-> created_at]

\* NewBook with the creation date left at a fixed day
NewBook_fixed_date(id, title, pages, day) == Book(id, title, pages, FirstDay)

\* Book(title=title, pages=pages, created_at=date.today()) with the identifier
\* the table assigns on insert
NewBook(id, title, pages, day) == Book(id, title, pages, day)

\* the identifier sequence of the table: server-assigned, monotonic, never reused
NextIdentifier(id) == id + 1

Preloaded(n) == [i \in 1..n |-> Book(i, "Emma", 100, FirstDay)]

VARIABLES
    books,      \* rows of the books table, in scan order
    nextId,     \* next value of the identifier sequence of the table
    today,      \* date.today() of the server
    session,    \* the database session of that request: "none", "open" or "closed"
    req,        \* the request served last
    exc,        \* the exception raised while serving it, or "none"
    resp,       \* the response returned for it
    created,    \* number of records created in this run
    deleted     \* identifiers removed by a successful delete

vars == <<books, nextId, today, session, req, exc, resp, created, deleted>>

(***************************************************************************)
(* Request validation, as declared by the handlers' signatures.            *)
(***************************************************************************)
ParamError(where, name, kind) == <<[loc |-> <<where, name>>, type |-> kind]>>

\* a parameter declared ": str" (required) or ": Optional[str] = None"
StrErrors(where, name, p, required) ==
    IF ~p.present /\ required THEN ParamError(where, name, "missing") ELSE <<>>

\* a parameter declared ": int" (required), ": int = default" or ": Optional[int] = None"
IntErrors(where, name, p, required) ==
    IF ~p.present THEN (IF required THEN ParamError(where, name, "missing") ELSE <<>>)
    ELSE IF ParseInt(p.text).ok THEN <<>> ELSE ParamError(where, name, "integer")

IntArg(p, default) == IF p.present THEN ParseInt(p.text).val ELSE default

(***************************************************************************)
(* Responses.                                                              *)
(***************************************************************************)
JSONResponse(status_code, content) == [http |-> status_code, body |-> content]

Success == JSONResponse(200, [status_code |-> 200, message |-> "success"])

\* get_default_error_response sending the body with the default status of JSONResponse
get_default_error_response_ok(status_code, message) ==
    JSONResponse(200, [status_code |-> status_code, message |-> message])

get_default_error_response(status_code, message) ==
    JSONResponse(status_code, [status_code |-> status_code, message |-> message])

exception_handler == get_default_error_response(500, "Internal Server Error")

\* the framework's own answer to a request whose parameters do not validate
request_validation_response(errs) == JSONResponse(422, [detail |-> errs])

\* jsonable_encoder of a mapped Book, or of None
jsonable_encoder(b) ==
    IF b = None THEN None
    ELSE [id |-> b.id, title |-> b.title, pages |-> b.pages, created_at |-> isoformat(b.created_at)]

\* FoundResponse answering an absent record with a not-found error
FoundResponse_not_found(book) ==
    IF book = None THEN JSONResponse(404, [status_code |-> 404, message |-> "Not Found"])
    ELSE JSONResponse(200, [status_code |-> 200, result |-> [book |-> jsonable_encoder(book)]])

\* the response of find_book
FoundResponse(book) ==
    JSONResponse(200, [status_code |-> 200, result |-> [book |-> jsonable_encoder(book)]])

\* the response of get_books
ListResponse(rows) ==
    JSONResponse(200, [status_code |-> 200,
                       result |-> [books |-> [i \in 1..Len(rows) |-> jsonable_encoder(rows[i])]]])

(***************************************************************************)
(* Queries.                                                                *)
(***************************************************************************)
\* session.query(Book).filter(Book.id == id).first() and session.query(Book).get(id)
QueryById(rows, id) ==
    IF \E i \in 1..Len(rows) : rows[i].id = id
    THEN rows[CHOOSE i \in 1..Len(rows) : rows[i].id = id]
    ELSE None

\* OFFSET n: the rows after the first n
Offset(rows, n) == SubSeq(rows, n + 1, Len(rows))

\* LIMIT n: the first n rows
Limit(rows, n) == SubSeq(rows, 1, IF n < Len(rows) THEN n ELSE Len(rows))

\* DeleteRow without the commit: nothing is removed
DeleteRow_uncommitted(rows, id) == rows

\* DELETE of the row with the primary key id
DeleteRow(rows, id) ==
    LET keep(b) == b.id # id IN SelectSeq(rows, keep)

\* UpdateRow assigning pages whether or not it was supplied
UpdateRow_unguarded(rows, id, title, pages) ==
    [i \in 1..Len(rows) |->
        IF rows[i].id = id
        THEN [rows[i] EXCEPT !.title = IF title.present THEN title.text ELSE @,
                             !.pages = IntArg(pages, 0)]
        ELSE rows[i]]

\* UpdateRow without the WHERE clause: every row is changed
UpdateRow_every_row(rows, id, title, pages) ==
    [i \in 1..Len(rows) |->
        [rows[i] EXCEPT !.title = IF title.present THEN title.text ELSE @,
                        !.pages = IF pages.present THEN ParseInt(pages.text).val ELSE @]]

UpdateRow(rows, id, title, pages) ==
    [i \in 1..Len(rows) |->
        IF rows[i].id = id
        THEN [rows[i] EXCEPT !.title = IF title.present THEN title.text ELSE @,
                             !.pages = IF pages.present THEN ParseInt(pages.text).val ELSE @]
        ELSE rows[i]]

\* ClampPageSize without the test for a negative page size
ClampPageSize_upper_only(page_size) == IF page_size > 100 THEN 100 ELSE page_size

\* the page size get_books queries with
ClampPageSize(page_size) == IF page_size > 100 \/ page_size < 0 THEN 100 ELSE page_size

\* PageOffset counting pages from zero
PageOffset_zero_based(page, page_size) == page * page_size

\* the offset get_books queries with
PageOffset(page, page_size) == (page - 1) * page_size

\* book.title = ... or book.pages = ... on the None of an absent record
UpdateRaises(book, title, pages) == book = None /\ (title.present \/ pages.present)

\* DeleteRaises with a delete of None passing silently
DeleteRaises_never(book) == FALSE

\* session.delete(None)
DeleteRaises(book) == book = None

(***************************************************************************)
(* Initial state: the table is created if missing and never dropped, so    *)
(* the service starts on an empty table or on the rows of an earlier run.  *)
(***************************************************************************)
Init ==
    /\ books = <<>>
    /\ nextId = 1
    /\ today = FirstDay
    /\ session = "none"
    /\ req = [op |-> "none"]
    /\ exc = "none"
    /\ resp = [http |-> 0, body |-> None]
    /\ created = 0
    /\ deleted = {}

RawIds == {Raw(IntText(i)) : i \in 1..MaxCreates} \cup {Raw(<<"x">>)}
BigIds == {Raw(IntText(1)), Raw(IntText(InitBig + 1))}

\* a request refused by validation never reaches its handler
Rejected(errs) ==
    /\ exc' = "RequestValidationError"
    /\ resp' = request_validation_response(errs)
    /\ session' = "none"
    /\ UNCHANGED <<books, nextId, today, created, deleted>>

\* an exception escapes the handler after Session() and before session.close()
Raised(e) ==
    /\ exc' = e
    /\ resp' = exception_handler
    /\ session' = "open"
    /\ UNCHANGED <<books, nextId, today, created, deleted>>

Tick ==
    /\ NextDay(today) \in Days
    /\ today' = NextDay(today)
    /\ UNCHANGED <<books, nextId, session, req, exc, resp, created, deleted>>

root ==
    /\ req' = [op |-> "root"]
    /\ exc' = "none"
    /\ resp' = JSONResponse(200, [message |-> "Sample books API is online"])
    /\ session' = "none"
    /\ UNCHANGED <<books, nextId, today, created, deleted>>

create_book(title, pages) ==
    LET errs == StrErrors("query", "title", title, TRUE) \o IntErrors("query", "pages", pages, TRUE)
    IN /\ req' = [op |-> "create", title |-> title, pages |-> pages, at |-> today]
       /\ IF errs # <<>> THEN Rejected(errs)
          ELSE /\ created < MaxCreates
               /\ books' = Append(books, NewBook(nextId, title.text, ParseInt(pages.text).val, today))
               /\ nextId' = NextIdentifier(nextId)
               /\ created' = created + 1
               /\ exc' = "none"
               /\ resp' = Success
               /\ session' = "closed"
               /\ UNCHANGED <<today, deleted>>

find_book(id) ==
    LET errs == IntErrors("path", "id", id, TRUE)
        book == QueryById(books, ParseInt(id.text).val)
    IN /\ req' = [op |-> "get", id |-> id]
       /\ IF errs # <<>> THEN Rejected(errs)
          ELSE /\ exc' = "none"
               /\ resp' = FoundResponse(book)
               /\ session' = "closed"
               /\ UNCHANGED <<books, nextId, today, created, deleted>>

get_books(page_size, page, dbRejects) ==
    LET errs == IntErrors("query", "page_size", page_size, FALSE)
                \o IntErrors("query", "page", page, FALSE)
        size == ClampPageSize(IntArg(page_size, 10))
        off  == PageOffset(IntArg(page, 1), size)
        rows == Limit(Offset(books, IF off < 0 THEN 0 ELSE off), size)
    IN /\ req' = [op |-> "list", page_size |-> page_size, page |-> page]
       /\ IF errs # <<>> THEN ~dbRejects /\ Rejected(errs)
          ELSE IF off < 0 /\ dbRejects THEN Raised("DBAPIError")
          ELSE /\ ~dbRejects
               /\ exc' = "none"
               /\ resp' = ListResponse(rows)
               /\ session' = "closed"
               /\ UNCHANGED <<books, nextId, today, created, deleted>>

update_book(id, title, pages) ==
    LET errs == IntErrors("query", "id", id, TRUE) \o StrErrors("query", "title", title, FALSE)
                \o IntErrors("query", "pages", pages, FALSE)
        key  == ParseInt(id.text).val
        book == QueryById(books, key)
    IN /\ req' = [op |-> "update", id |-> id, title |-> title, pages |-> pages]
       /\ IF errs # <<>> THEN Rejected(errs)
          ELSE IF UpdateRaises(book, title, pages) THEN Raised("AttributeError")
          ELSE /\ books' = UpdateRow(books, key, title, pages)
               /\ exc' = "none"
               /\ resp' = Success
               /\ session' = "closed"
               /\ UNCHANGED <<nextId, today, created, deleted>>

delete_book(id) ==
    LET errs == IntErrors("query", "id", id, TRUE)
        key  == ParseInt(id.text).val
        book == QueryById(books, key)
    IN /\ req' = [op |-> "delete", id |-> id]
       /\ IF errs # <<>> THEN Rejected(errs)
          ELSE IF DeleteRaises(book) THEN Raised("UnmappedInstanceError")
          ELSE /\ books' = DeleteRow(books, key)
               /\ deleted' = deleted \cup {key}
               /\ exc' = "none"
               /\ resp' = Success
               /\ session' = "closed"
               /\ UNCHANGED <<nextId, today, created>>

Next ==
    \/ Tick
    \/ root
    \/ \E title \in NewTitles, pages \in NewPages : create_book(title, pages)
    \/ \E id \in RawIds : find_book(id)
    \/ \E page_size \in RawPageSizes, page \in RawPageNos, dbRejects \in BOOLEAN :
          get_books(page_size, page, dbRejects)
    \/ \E id \in RawIds, title \in SetTitles, pages \in SetPages : update_book(id, title, pages)
    \/ \E id \in RawIds \cup {Absent} : delete_book(id)

Spec == Init /\ [][Next]_vars

(***************************************************************************)
(* The service started on the table an earlier run has filled.             *)
(***************************************************************************)
InitPreloaded ==
    /\ books = Preloaded(InitBig)
    /\ nextId = InitBig + 1
    /\ today = FirstDay
    /\ session = "none"
    /\ req = [op |-> "none"]
    /\ exc = "none"
    /\ resp = [http |-> 0, body |-> None]
    /\ created = 0
    /\ deleted = {}

NextPreloaded ==
    \/ create_book(Raw("Dune"), Raw(<<"4", "1", "2">>))
    \/ \E page_size \in BigPageSizes, page \in BigPageNos, dbRejects \in BOOLEAN :
          get_books(page_size, page, dbRejects)
    \/ \E id \in BigIds : delete_book(id)

SpecPreloaded == InitPreloaded /\ [][NextPreloaded]_vars

(***************************************************************************)
(* Vocabulary of the properties.                                           *)
(***************************************************************************)
SuccessEnvelope == [http |-> 200, body |-> [status_code |-> 200, message |-> "success"]]
ErrorEnvelope == [http |-> 500, body |-> [status_code |-> 500, message |-> "Internal Server Error"]]
NullBook == [http |-> 200, body |-> [status_code |-> 200, result |-> [book |-> [null |-> TRUE]]]]

\* the step serves a request (the clock stands still)
IsRequest == today' = today
\* the request passed validation
Validated(e) == e # "RequestValidationError"
\* the integer a request names as id, page_size or page
Key(r) == ParseInt(r.id.text).val
PageSizeOf(r) == IF r.page_size.present THEN ParseInt(r.page_size.text).val ELSE 10
PageOf(r) == IF r.page.present THEN ParseInt(r.page.text).val ELSE 1
Stored(rows, id) == \E i \in 1..Len(rows) : rows[i].id = id
RowsOf(rows) == {rows[i] : i \in 1..Len(rows)}
\* a stored row as a response shows it
Shown(b) == [id |-> b.id, title |-> b.title, pages |-> b.pages, created_at |-> isoformat(b.created_at)]
Smaller(a, b) == IF a < b THEN a ELSE b
AtLeastZero(a) == IF a < 0 THEN 0 ELSE a
ListedBooks == resp.body.result.books

(***************************************************************************)
(* C1: a create with any title and any integer pages returns the success   *)
(* envelope and adds exactly one new record carrying the title, the pages  *)
(* and the server's date of that moment; a get of that record's            *)
(* identifier that follows the create returns 200 with that title, those   *)
(* pages and the creation date, also when midnight passed in between.      *)
(***************************************************************************)
C1_Create ==
    (IsRequest /\ req'.op = "create" /\ req'.title.present /\ req'.pages.present
       /\ ParseInt(req'.pages.text).ok)
    => /\ resp' = SuccessEnvelope
       /\ Len(books') = Len(books) + 1
       /\ SubSeq(books', 1, Len(books)) = books
       /\ LET b == books'[Len(books')]
          IN /\ ~Stored(books, b.id)
             /\ b.title = req'.title.text
             /\ b.pages = ParseInt(req'.pages.text).val
             /\ b.created_at = today

C1_GetAfterCreate ==
    (IsRequest /\ req.op = "create" /\ exc = "none" /\ req'.op = "get" /\ Validated(exc')
       /\ Key(req') = books[Len(books)].id)
    => resp' = [http |-> 200,
                body |-> [status_code |-> 200,
                          result |-> [book |-> [id |-> Key(req'),
                                                title |-> req.title.text,
                                                pages |-> ParseInt(req.pages.text).val,
                                                created_at |-> isoformat(req.at)]]]]

C1_CreateThenGet == [][C1_Create /\ C1_GetAfterCreate]_vars

C1_Witness ==
    /\ req.op = "get" /\ exc = "none" /\ created = 1 /\ Key(req) = nextId - 1
    /\ today = [year |-> 2026, month |-> 11, day |-> 1]
    /\ resp.body.result.book = [id |-> 1, title |-> "Dune", pages |-> 412, created_at |-> "2026-10-31"]

(***************************************************************************)
(* C2: a get of an integer id that matches no stored record returns the    *)
(* success envelope with status_code 200 and result.book = null, never an  *)
(* error response.                                                         *)
(***************************************************************************)
C2_GetAbsent ==
    (req.op = "get" /\ Validated(exc) /\ ~Stored(books, Key(req)))
    => exc = "none" /\ resp = NullBook

C2_Witness ==
    /\ req.op = "get" /\ Validated(exc) /\ ~Stored(books, Key(req))
    /\ Len(books) > 0
    /\ resp.http = 200 /\ resp.body.result.book = None

(***************************************************************************)
(* C3 as stated: an update or a delete of an id that matches no stored     *)
(* record ends in the 500 response and leaves the stored records as they   *)
(* were.                                                                   *)
(***************************************************************************)
C3_AbsentAlwaysFails ==
    [][(IsRequest /\ req'.op \in {"update", "delete"} /\ Validated(exc')
          /\ ~Stored(books, Key(req')))
       => resp' = ErrorEnvelope /\ books' = books]_vars

(***************************************************************************)
(* C3 as amended: a delete of an absent id, and an update of an absent id  *)
(* that supplies a title or pages, end in the 500 response; an update of   *)
(* an absent id that supplies neither returns the success envelope; in     *)
(* all three cases the stored records are the same after the call.         *)
(***************************************************************************)
C3_AbsentStep ==
    (IsRequest /\ req'.op \in {"update", "delete"} /\ Validated(exc')
       /\ ~Stored(books, Key(req')))
    => /\ books' = books
       /\ IF req'.op = "update" /\ ~req'.title.present /\ ~req'.pages.present
          THEN resp' = SuccessEnvelope
          ELSE resp' = ErrorEnvelope

C3_AbsentFailsWhenTouched == [][C3_AbsentStep]_vars

C3_Witness ==
    /\ req.op = "update" /\ Validated(exc) /\ ~Stored(books, Key(req))
    /\ ~req.title.present /\ ~req.pages.present
    /\ resp = SuccessEnvelope
    /\ Len(books) > 0

(***************************************************************************)
(* C4: once an id has been deleted, it is never stored again: every later  *)
(* get of it returns 200 with result.book = null, every later list omits   *)
(* it, whatever was created, updated or deleted in between, and a second   *)
(* delete of it takes the 500 path.                                        *)
(***************************************************************************)
C4_Gone ==
    /\ \A i \in 1..Len(books) : books[i].id \notin deleted
    /\ (req.op = "get" /\ Validated(exc) /\ Key(req) \in deleted) => resp = NullBook
    /\ (req.op = "list" /\ exc = "none")
          => \A i \in 1..Len(ListedBooks) : ListedBooks[i].id \notin deleted

C4_SecondDelete ==
    (IsRequest /\ req'.op = "delete" /\ Validated(exc') /\ Key(req') \in deleted)
    => resp' = ErrorEnvelope /\ deleted' = deleted

C4_DeletedStaysDeleted == []C4_Gone /\ [][C4_SecondDelete]_vars

C4_Witness ==
    /\ req.op = "get" /\ Validated(exc) /\ Key(req) \in deleted
    /\ resp.body.result.book = None
    /\ created = 2 /\ Len(books) = 1

(***************************************************************************)
(* C5: a list never returns more than 100 records; a page_size above 100   *)
(* or below 0 is replaced by 100, so that page_size = -5 returns up to 100 *)
(* records, and a page_size in 0..100 is used unchanged.                   *)
(***************************************************************************)
C5_PageSizeClamped ==
    (req.op = "list" /\ exc = "none")
    => /\ Len(ListedBooks) <= 100
       /\ PageOf(req) >= 1 =>
             LET used == IF PageSizeOf(req) \in 0..100 THEN PageSizeOf(req) ELSE 100
                 left == AtLeastZero(Len(books) - (PageOf(req) - 1) * used)
             IN Len(ListedBooks) = Smaller(used, left)

C5_Witness ==
    /\ req.op = "list" /\ exc = "none"
    /\ PageSizeOf(req) = 0 - 5 /\ PageOf(req) = 1
    /\ Len(books) > 100
    /\ Len(ListedBooks) = 100

(***************************************************************************)
(* C6: for page >= 1 a list returns status_code 200 and the contiguous     *)
(* slice of the stored records that starts at offset (page-1)*page_size    *)
(* and holds at most page_size records, page_size being the clamped value; *)
(* a page past the end is empty.                                           *)
(***************************************************************************)
C6_Slice ==
    (req.op = "list" /\ exc = "none" /\ PageOf(req) >= 1)
    => LET size == IF PageSizeOf(req) \in 0..100 THEN PageSizeOf(req) ELSE 100
           off  == (PageOf(req) - 1) * size
       IN /\ resp.http = 200 /\ resp.body.status_code = 200
          /\ Len(ListedBooks) <= size
          /\ \A i \in 1..Len(ListedBooks) : ListedBooks[i] = Shown(books[off + i])
          /\ Len(ListedBooks) < size => off + Len(ListedBooks) >= Len(books)
          /\ off >= Len(books) => ListedBooks = <<>>

C6_Witness ==
    /\ req.op = "list" /\ exc = "none"
    /\ PageSizeOf(req) = 99 /\ PageOf(req) = 2
    /\ Len(ListedBooks) = 3
    /\ ListedBooks[1] = Shown(books[100])
    /\ ListedBooks[3] = [id |-> nextId - 1, title |-> "Dune", pages |-> 412, created_at |-> "2026-10-31"]

(***************************************************************************)
(* C7: a successful update changes only the fields it supplies: an         *)
(* omitted title or pages keeps its value, the identifier and created_at   *)
(* never change, and an update supplying neither returns success and       *)
(* leaves the record as it was.                                            *)
(***************************************************************************)
C7_UpdateStep ==
    (IsRequest /\ req'.op = "update" /\ exc' = "none" /\ Stored(books, Key(req')))
    => /\ resp' = SuccessEnvelope
       /\ Len(books') = Len(books)
       /\ \A i \in 1..Len(books) :
             books[i].id = Key(req')
             => /\ books'[i].id = books[i].id
                /\ books'[i].created_at = books[i].created_at
                /\ books'[i].title = IF req'.title.present THEN req'.title.text ELSE books[i].title
                /\ books'[i].pages = IF req'.pages.present THEN ParseInt(req'.pages.text).val
                                     ELSE books[i].pages

C7_UpdateOnlySupplied == [][C7_UpdateStep]_vars

C7_Witness ==
    /\ req.op = "update" /\ exc = "none" /\ Stored(books, Key(req))
    /\ req.title.present /\ ~req.pages.present
    /\ \E i \in 1..Len(books) :
          books[i] = [id |-> Key(req), title |-> "Emma", pages |-> 412,
                      created_at |-> [year |-> 2026, month |-> 10, day |-> 31]]

(***************************************************************************)
(* C8: every handler that opens a database session releases it before the  *)
(* response is returned, on all paths: no request leaves its session open. *)
(***************************************************************************)
C8_SessionReleased == session # "open"

(***************************************************************************)
(* C9 as stated: any failure raised while serving a request yields the     *)
(* response with status 500 and body {status_code: 500, message:           *)
(* "Internal Server Error"}, and no other error status is ever returned.   *)
(***************************************************************************)
C9_EveryFailureIs500 ==
    /\ exc # "none" => resp = ErrorEnvelope
    /\ resp.http \in {0, 200, 500}

(***************************************************************************)
(* C9 as amended: an exception raised inside a handler (the missing record *)
(* of an update or delete, a database error) yields the response with      *)
(* status 500 and body {status_code: 500, message: "Internal Server        *)
(* Error"}, and every 500 response is that one; a request validation error *)
(* is answered before the handler runs with status 422 and a detail body.  *)
(***************************************************************************)
C9_HandlerFailureIs500 ==
    /\ exc \notin {"none", "RequestValidationError"} => resp = ErrorEnvelope
    /\ resp.http = 500 => resp = ErrorEnvelope /\ exc \notin {"none", "RequestValidationError"}
    /\ exc = "RequestValidationError"
          => resp.http = 422 /\ DOMAIN resp.body = {"detail"} /\ resp.body.detail # <<>>
    /\ resp.http \in {0, 200, 422, 500}

C9_Witness ==
    /\ req.op = "list" /\ exc = "DBAPIError"
    /\ resp.http = 500 /\ resp.body.message = "Internal Server Error"

(***************************************************************************)
(* C10: a call affects at most the record it names: get and list leave     *)
(* the stored records unchanged, a create adds one record and leaves the   *)
(* others unchanged, an update or delete of an id changes or removes only  *)
(* the record with that id.                                                *)
(***************************************************************************)
C10_Frame ==
    IsRequest =>
       /\ req'.op \in {"root", "get", "list"} => books' = books
       /\ exc' # "none" => books' = books
       /\ (req'.op = "create" /\ exc' = "none")
             => Len(books') = Len(books) + 1 /\ SubSeq(books', 1, Len(books)) = books
       /\ (req'.op \in {"update", "delete"} /\ exc' = "none")
             => LET others(rows) == {b \in RowsOf(rows) : b.id # Key(req')}
                IN /\ others(books') = others(books)
                   /\ req'.op = "update" => Len(books') = Len(books)
                   /\ (req'.op = "delete" /\ Stored(books, Key(req')))
                         => Len(books') = Len(books) - 1 /\ ~Stored(books', Key(req'))

C10_OnlyNamedRecord == [][C10_Frame]_vars

C10_Witness ==
    /\ req.op = "update" /\ exc = "none" /\ Len(books) = 2
    /\ Key(req) = books[1].id
    /\ books[1].title = "Emma" /\ books[1].pages = 0 - 1
    /\ books[2].title = "Dune" /\ books[2].pages = 412

====
